---- MODULE Spec2Model ----
(***************************************************************************)
(* Mission lifecycle and drone coordination of the FlyteBase DSM backend.  *)
(*                                                                         *)
(* The store (MongoDB through Prisma) holds the mission and drone records. *)
(* Every REST handler of missionController and every socket handler of     *)
(* the websocket service is an async function: it suspends at each await   *)
(* of a store call, and other handlers run in between.  A handler in       *)
(* flight is a record of procs; each store call is one atomic step.        *)
(* The two updates of a Promise.all are two store calls, applied in either *)
(* order, each of which may be rejected by the store.  A handler's emits   *)
(* and its response follow its last store call without suspension, so they *)
(* belong to the step of that call.  Dates are kept as set or null.        *)
(***************************************************************************)
EXTENDS Integers, Sequences, FiniteSets, TLC

\* ------------------------------------------------------------- bounds
NumMissions == 2
NumDrones   == 2
NumProcs    == 2
MaxRequests == 4
MaxFailures == 1

MissionIds == 1..NumMissions
DroneIds   == 1..NumDrones
Procs      == 1..NumProcs
NoId       == 0

\* ------------------------------------------------------------- enums
MissionStatus ==
  {"PLANNED", "SCHEDULED", "IN_PROGRESS", "PAUSED", "COMPLETED", "ABORTED", "FAILED"}
DroneStatus == {"AVAILABLE", "IN_MISSION", "MAINTENANCE", "OFFLINE", "ERROR"}

ActiveStatus   == {"IN_PROGRESS", "PAUSED"}
TerminalStatus == {"COMPLETED", "ABORTED", "FAILED"}

\* Inputs of the requests.
MetricValues == {1, 2}
Reasons      == {"geofence breach"}
ReportReasons == Reasons \cup {"battery low"}
BatteryLevels == {20, 60}
Unset        == "unset"
\* A PUT body: validateMission checks the known keys and passes req.body on
\* untouched, so the body's droneId and status reach prisma.mission.update.
PatchStatus == {Unset, "SCHEDULED", "COMPLETED"}
Patches == [droneId : DroneIds \cup {NoId}, status : PatchStatus]

\* ------------------------------------------------------------- state
VARIABLES
  missions,   \* mission id -> record of the missions collection
  drones,     \* drone id -> record of the drones collection
  procs,      \* handler slot -> the handler running in it, or the last one's result
  clock,      \* requests accepted so far
  faults,     \* calls (store writes, emits) that will still fail
  created,    \* mission ids issued so far (an id is never issued twice)
  history,    \* when on: the mission writes applied and the events published, in order
  flightLogs  \* mission id -> number of flight-log records of that mission

vars == <<missions, drones, procs, clock, faults, created, history, flightLogs>>

Null == "null"
Date == "date"

NoMission ==
  [exists |-> FALSE, status |-> "PLANNED", droneId |-> NoId,
   startedAt |-> Null, completedAt |-> Null, metrics |-> 0]

FullBattery == 100

NewDrone == [exists |-> TRUE, status |-> "AVAILABLE", batteryLevel |-> FullBattery]

NoPatch == [droneId |-> NoId, status |-> Unset]

Idle ==
  [op |-> "none", pc |-> "idle", m |-> NoId, d |-> NoId, patch |-> NoPatch,
   metrics |-> 0, reason |-> "", battery |-> 0, wm |-> "none", wd |-> "none",
   res |-> "none", emits |-> <<>>, preM |-> "none", preD |-> "none",
   rival |-> NoId]

NoHistory == [on |-> FALSE, commits |-> <<>>, events |-> <<>>]

Init ==
  /\ missions = [id \in MissionIds |-> NoMission]
  /\ drones = [id \in DroneIds |-> NewDrone]
  /\ procs = [p \in Procs |-> Idle]
  /\ clock = 0
  /\ faults = 0
  /\ created = 0
  /\ history = NoHistory
  /\ flightLogs = [id \in MissionIds |-> 0]

\* The same store, which will reject up to MaxFailures calls.
InitFaulty ==
  /\ missions = [id \in MissionIds |-> NoMission]
  /\ drones = [id \in DroneIds |-> NewDrone]
  /\ procs = [p \in Procs |-> Idle]
  /\ clock = 0
  /\ faults = MaxFailures
  /\ created = 0
  /\ history = NoHistory
  /\ flightLogs = [id \in MissionIds |-> 0]

\* ------------------------------------------------------------- helpers
\* A slot takes a new request when no handler is suspended in it.
SlotFree(p) == procs[p].pc \in {"idle", "done"}

Accepts(p) == SlotFree(p) /\ clock < MaxRequests

\* The outcomes of one store write: applied, or rejected by the store.
StoreOutcomes == {"ok"} \cup (IF faults > 0 THEN {"fail"} ELSE {})

Failed(out) == IF out = "fail" THEN faults - 1 ELSE faults

\* The outcomes of io.emit: the events are handed to the transport, or it throws.
EmitOutcomes == {"ok"} \cup (IF faults > 0 THEN {"throw"} ELSE {})

MissionEvent(name, id, reason) == [name |-> name, id |-> id, reason |-> reason]
DroneEvent(id) == [name |-> "drone:status_updated", id |-> id, reason |-> ""]

\* A handler that answers right after its read.
Answer(op, id, res) ==
  [Idle EXCEPT !.op = op, !.pc = "done", !.m = id, !.res = res]

\* A handler suspended before its writes.
Suspend(op, id, d, wd) ==
  [Idle EXCEPT !.op = op, !.pc = "write", !.m = id, !.d = d,
               !.wm = "pending", !.wd = wd]

\* Resolved only when nothing was rejected.
ResolvedUnrejected(r) == r.wm = "ok" /\ r.wd \in {"ok", "none"}

Resolved(r) == r.wm \in {"ok", "fail"} /\ r.wd \in {"ok", "fail", "none"}
Rejected(r) == r.wm = "fail" \/ r.wd = "fail"

Committed(r) == Resolved(r) /\ ~Rejected(r)

\* The same events, the drone's before the mission's.
EventsDroneFirst(r) ==
  LET droneEv == IF r.wd = "ok" THEN <<DroneEvent(r.d)>> ELSE <<>>
      name == CASE r.op = "start"    -> "mission:started"
                [] r.op = "pause"    -> "mission:paused"
                [] r.op = "resume"   -> "mission:resumed"
                [] r.op = "abort"    -> "mission:aborted"
                [] r.op = "complete" -> "mission:completed"
                [] r.op = "fail"     -> "mission:failed"
                [] r.op = "create"   -> "mission:created"
                [] r.op = "update"   -> "mission:updated"
                [] OTHER             -> "mission:deleted"
  IN droneEv \o <<MissionEvent(name, r.m, r.reason)>>

\* What a handler emits once its updates have resolved.
EventsOf(r) ==
  LET droneEv == IF r.wd = "ok" THEN <<DroneEvent(r.d)>> ELSE <<>>
  IN CASE r.op = "create"   -> <<MissionEvent("mission:created", r.m, "")>>
       [] r.op = "update"   -> <<MissionEvent("mission:updated", r.m, "")>>
       [] r.op = "delete"   -> <<MissionEvent("mission:deleted", r.m, "")>>
       [] r.op = "start"    -> <<MissionEvent("mission:started", r.m, "")>> \o droneEv
       [] r.op = "pause"    -> <<MissionEvent("mission:paused", r.m, "")>>
       [] r.op = "resume"   -> <<MissionEvent("mission:resumed", r.m, "")>>
       [] r.op = "abort"    -> <<MissionEvent("mission:aborted", r.m, "")>> \o droneEv
       [] r.op = "complete" -> <<MissionEvent("mission:completed", r.m, "")>> \o droneEv
       [] r.op = "fail"     -> <<MissionEvent("mission:failed", r.m, r.reason)>> \o droneEv
       [] OTHER             -> <<>>

\* Promise.all: rejects on the first rejection (the catch answers 500 while the
\* other update still runs), resolves when both updates have resolved; the
\* emits and the success response follow inside the same try block, so an emit
\* that throws is answered by the catch as well.  A finished handler leaves its
\* result in the slot.
Settle(r, pub) ==
  LET res == IF Rejected(r) THEN "PersistenceError"
             ELSE IF Resolved(r)
             THEN (IF pub = "throw" THEN "EmitError" ELSE "Success")
             ELSE r.res
  IN IF Resolved(r)
     THEN [Idle EXCEPT !.op = r.op, !.pc = "done", !.m = r.m, !.d = r.d,
                       !.wm = r.wm, !.wd = r.wd, !.res = res,
                       !.emits = IF Committed(r) /\ pub = "ok" THEN EventsOf(r)
                                 ELSE <<>>,
                       !.preM = r.preM, !.preD = r.preD, !.rival = r.rival]
     ELSE [r EXCEPT !.res = res]

\* The failures left after a step with store outcome out that left handler r1.
Spent(out, r1) == Failed(out) - (IF r1.res = "EmitError" THEN 1 ELSE 0)

\* The history after a step that applied the mission writes of committed (named
\* by the event each one owes) and left handler r1.
Journal(committed, r1) ==
  IF history.on
  THEN [history EXCEPT !.commits = @ \o committed,
                       !.events = @ \o (IF r1.pc = "done" THEN r1.emits ELSE <<>>)]
  ELSE history

\* prisma.mission.update({where: {id}, data}) of handler p: the store applies
\* data to the record as it is now, whatever the handler read before; it rejects
\* when the record is gone.  A delete takes the mission's flight logs with it
\* (FlightLog.mission is onDelete: Cascade).
MissionUpdate(p, out, data) ==
  LET r == procs[p]
      old == missions[r.m]
      applied == out = "ok" /\ old.exists
      r0 == [r EXCEPT !.wm = IF applied THEN "ok" ELSE "fail",
                      !.preM = IF old.exists THEN old.status ELSE "missing"]
  IN \E pub \in EmitOutcomes :
       LET r1 == Settle(r0, pub)
       IN /\ missions' = IF applied THEN [missions EXCEPT ![r.m] = data] ELSE missions
          /\ procs' = [procs EXCEPT ![p] = r1]
          /\ faults' = Spent(out, r1)
          /\ history' = Journal(IF applied THEN <<EventsOf(r)[1]>> ELSE <<>>, r1)
          /\ flightLogs' = IF applied /\ ~data.exists
                           THEN [flightLogs EXCEPT ![r.m] = 0] ELSE flightLogs
          /\ UNCHANGED <<drones, clock, created>>

\* prisma.drone.update({where: {id}, data: {status}}) of handler p.
DroneUpdate(p, out, status) ==
  LET r == procs[p]
      applied == out = "ok" /\ drones[r.d].exists
      r0 == [r EXCEPT !.wd = IF applied THEN "ok" ELSE "fail",
                      !.preD = drones[r.d].status]
  IN \E pub \in EmitOutcomes :
       LET r1 == Settle(r0, pub)
       IN /\ drones' = IF applied THEN [drones EXCEPT ![r.d].status = status]
                       ELSE drones
          /\ procs' = [procs EXCEPT ![p] = r1]
          /\ faults' = Spent(out, r1)
          /\ history' = Journal(<<>>, r1)
          /\ UNCHANGED <<flightLogs, missions, clock, created>>

Writing(p, op) == procs[p].pc = "write" /\ procs[p].op = op

\* ------------------------------------------------------------- createMission
PendingCreates == Cardinality({p \in Procs : Writing(p, "create")})

\* The same read without the tests on the drone.
CreateMissionReadAnyDrone(p, droneId) ==
  /\ Accepts(p)
  /\ created + PendingCreates < NumMissions
  /\ procs' = [procs EXCEPT ![p] = Suspend("create", NoId, droneId, "none")]
  /\ clock' = clock + 1
  /\ UNCHANGED <<flightLogs, missions, drones, faults, created, history>>

CreateMissionRead(p, droneId) ==
  /\ Accepts(p)
  /\ created + PendingCreates < NumMissions
  /\ LET res == IF droneId = NoId THEN "none"
                ELSE IF ~drones[droneId].exists THEN "DroneNotFound"
                ELSE IF drones[droneId].status # "AVAILABLE" THEN "ResourceConflict"
                ELSE "none"
     IN procs' = [procs EXCEPT ![p] =
                    IF res = "none" THEN Suspend("create", NoId, droneId, "none")
                    ELSE Answer("create", NoId, res)]
  /\ clock' = clock + 1
  /\ UNCHANGED <<flightLogs, missions, drones, faults, created, history>>

CreateMissionWrite(p) ==
  /\ Writing(p, "create")
  /\ \E out \in StoreOutcomes, pub \in EmitOutcomes :
       LET r == procs[p]
           id == created + 1
           r0 == [r EXCEPT !.wm = out, !.m = IF out = "ok" THEN id ELSE NoId]
           r1 == Settle(r0, pub)
       IN /\ missions' = IF out = "ok"
                         THEN [missions EXCEPT ![id] =
                                 [NoMission EXCEPT !.exists = TRUE, !.droneId = r.d]]
                         ELSE missions
          /\ created' = IF out = "ok" THEN id ELSE created
          /\ procs' = [procs EXCEPT ![p] = r1]
          /\ faults' = Spent(out, r1)
          /\ history' = Journal(IF out = "ok" THEN <<EventsOf(r0)[1]>> ELSE <<>>, r1)
  /\ UNCHANGED <<flightLogs, drones, clock>>

\* ------------------------------------------------------------- updateMission
UpdateMissionRead(p, id, patch) ==
  /\ Accepts(p)
  /\ LET existingMission == missions[id]
         res == IF ~existingMission.exists THEN "NotFound"
                ELSE IF existingMission.status \in
                          {"IN_PROGRESS", "COMPLETED", "ABORTED", "FAILED"}
                THEN "MissionLocked"
                ELSE "none"
     IN procs' = [procs EXCEPT ![p] =
                    IF res = "none"
                    THEN [Suspend("update", id, NoId, "none") EXCEPT !.patch = patch]
                    ELSE Answer("update", id, res)]
  /\ clock' = clock + 1
  /\ UNCHANGED <<flightLogs, missions, drones, faults, created, history>>

ApplyPatch(old, patch) ==
  [old EXCEPT !.droneId = IF patch.droneId = NoId THEN @ ELSE patch.droneId,
              !.status = IF patch.status = Unset THEN @ ELSE patch.status]

UpdateMissionWrite(p) ==
  /\ Writing(p, "update")
  /\ \E out \in StoreOutcomes :
       MissionUpdate(p, out, ApplyPatch(missions[procs[p].m], procs[p].patch))

\* ------------------------------------------------------------- deleteMission
\* The same read with the lock of updateMission.
DeleteMissionReadLocked(p, id) ==
  /\ Accepts(p)
  /\ LET existingMission == missions[id]
         res == IF ~existingMission.exists THEN "NotFound"
                ELSE IF existingMission.status \in
                          {"IN_PROGRESS", "PAUSED", "COMPLETED", "ABORTED", "FAILED"}
                THEN "InvalidStateTransition"
                ELSE "none"
     IN procs' = [procs EXCEPT ![p] =
                    IF res = "none" THEN Suspend("delete", id, NoId, "none")
                    ELSE Answer("delete", id, res)]
  /\ clock' = clock + 1
  /\ UNCHANGED <<flightLogs, missions, drones, faults, created, history>>

DeleteMissionRead(p, id) ==
  /\ Accepts(p)
  /\ LET existingMission == missions[id]
         res == IF ~existingMission.exists THEN "NotFound"
                ELSE IF existingMission.status = "IN_PROGRESS"
                THEN "InvalidStateTransition"
                ELSE "none"
     IN procs' = [procs EXCEPT ![p] =
                    IF res = "none" THEN Suspend("delete", id, NoId, "none")
                    ELSE Answer("delete", id, res)]
  /\ clock' = clock + 1
  /\ UNCHANGED <<flightLogs, missions, drones, faults, created, history>>

DeleteMissionWrite(p) ==
  /\ Writing(p, "delete")
  /\ \E out \in StoreOutcomes : MissionUpdate(p, out, NoMission)

\* ------------------------------------------------------------- startMission
\* Ghost: another startMission, of a different mission on the same drone, is
\* suspended with none of its writes applied while this one reads its mission
\* PLANNED or SCHEDULED and the drone AVAILABLE.
Rival(p, id) ==
  LET mission == missions[id]
      racing == {q \in Procs : /\ q # p
                               /\ Writing(q, "start")
                               /\ procs[q].wm = "pending" /\ procs[q].wd = "pending"
                               /\ procs[q].m # id
                               /\ procs[q].d = mission.droneId}
  IN IF /\ mission.exists /\ mission.status \in {"PLANNED", "SCHEDULED"}
        /\ mission.droneId # NoId
        /\ drones[mission.droneId].exists
        /\ drones[mission.droneId].status = "AVAILABLE"
        /\ racing # {}
     THEN CHOOSE q \in racing : TRUE ELSE NoId

\* The same read without the test for an assigned drone.
StartMissionReadAnyDrone(p, id) ==
  /\ Accepts(p)
  /\ LET mission == missions[id]
         res == IF ~mission.exists THEN "NotFound"
                ELSE IF mission.status # "PLANNED" /\ mission.status # "SCHEDULED"
                THEN "InvalidStateTransition"
                ELSE IF mission.droneId = NoId THEN "none"
                ELSE IF \/ ~drones[mission.droneId].exists
                        \/ drones[mission.droneId].status # "AVAILABLE"
                THEN "ResourceConflict"
                ELSE "none"
         q == Rival(p, id)
         me == IF res = "none"
               THEN Suspend("start", id, mission.droneId,
                            IF mission.droneId = NoId THEN "none" ELSE "pending")
               ELSE Answer("start", id, res)
     IN procs' = [r \in Procs |->
                    IF r = p THEN [me EXCEPT !.rival = q]
                    ELSE IF r = q THEN [procs[r] EXCEPT !.rival = p]
                    ELSE procs[r]]
  /\ clock' = clock + 1
  /\ UNCHANGED <<flightLogs, missions, drones, faults, created, history>>

StartMissionRead(p, id) ==
  /\ Accepts(p)
  /\ LET mission == missions[id]
         res == IF ~mission.exists THEN "NotFound"
                ELSE IF mission.status # "PLANNED" /\ mission.status # "SCHEDULED"
                THEN "InvalidStateTransition"
                ELSE IF mission.droneId = NoId THEN "DroneRequired"
                ELSE IF \/ ~drones[mission.droneId].exists
                        \/ drones[mission.droneId].status # "AVAILABLE"
                THEN "ResourceConflict"
                ELSE "none"
         q == Rival(p, id)
         me == IF res = "none"
               THEN Suspend("start", id, mission.droneId, "pending")
               ELSE Answer("start", id, res)
     IN procs' = [r \in Procs |->
                    IF r = p THEN [me EXCEPT !.rival = q]
                    ELSE IF r = q THEN [procs[r] EXCEPT !.rival = p]
                    ELSE procs[r]]
  /\ clock' = clock + 1
  /\ UNCHANGED <<flightLogs, missions, drones, faults, created, history>>

StartMissionWriteMission(p) ==
  /\ Writing(p, "start") /\ procs[p].wm = "pending"
  /\ \E out \in StoreOutcomes :
       MissionUpdate(p, out, [missions[procs[p].m] EXCEPT
                                !.status = "IN_PROGRESS", !.startedAt = Date])

StartMissionWriteDrone(p) ==
  /\ Writing(p, "start") /\ procs[p].wd = "pending"
  /\ \E out \in StoreOutcomes : DroneUpdate(p, out, "IN_MISSION")

\* ------------------------------------------------------------- pauseMission
PauseMissionRead(p, id) ==
  /\ Accepts(p)
  /\ LET mission == missions[id]
         res == IF ~mission.exists THEN "NotFound"
                ELSE IF mission.status # "IN_PROGRESS" THEN "InvalidStateTransition"
                ELSE "none"
     IN procs' = [procs EXCEPT ![p] =
                    IF res = "none" THEN Suspend("pause", id, NoId, "none")
                    ELSE Answer("pause", id, res)]
  /\ clock' = clock + 1
  /\ UNCHANGED <<flightLogs, missions, drones, faults, created, history>>

\* The same write, stamping completedAt as abortMission does.
PauseMissionWriteStamped(p) ==
  /\ Writing(p, "pause")
  /\ \E out \in StoreOutcomes :
       MissionUpdate(p, out, [missions[procs[p].m] EXCEPT
                                !.status = "PAUSED", !.completedAt = Date])

PauseMissionWrite(p) ==
  /\ Writing(p, "pause")
  /\ \E out \in StoreOutcomes :
       MissionUpdate(p, out, [missions[procs[p].m] EXCEPT !.status = "PAUSED"])

\* ------------------------------------------------------------- resumeMission
ResumeMissionRead(p, id) ==
  /\ Accepts(p)
  /\ LET mission == missions[id]
         res == IF ~mission.exists THEN "NotFound"
                ELSE IF mission.status # "PAUSED" THEN "InvalidStateTransition"
                ELSE "none"
     IN procs' = [procs EXCEPT ![p] =
                    IF res = "none" THEN Suspend("resume", id, NoId, "none")
                    ELSE Answer("resume", id, res)]
  /\ clock' = clock + 1
  /\ UNCHANGED <<flightLogs, missions, drones, faults, created, history>>

ResumeMissionWrite(p) ==
  /\ Writing(p, "resume")
  /\ \E out \in StoreOutcomes :
       MissionUpdate(p, out, [missions[procs[p].m] EXCEPT !.status = "IN_PROGRESS"])

\* ------------------------------------------------------------- abortMission
AbortMissionRead(p, id) ==
  /\ Accepts(p)
  /\ LET mission == missions[id]
         res == IF ~mission.exists THEN "NotFound"
                ELSE IF mission.status \notin {"IN_PROGRESS", "PAUSED"}
                THEN "InvalidStateTransition"
                ELSE "none"
     IN procs' = [procs EXCEPT ![p] =
                    IF res = "none"
                    THEN Suspend("abort", id, mission.droneId,
                                 IF mission.droneId # NoId THEN "pending" ELSE "none")
                    ELSE Answer("abort", id, res)]
  /\ clock' = clock + 1
  /\ UNCHANGED <<flightLogs, missions, drones, faults, created, history>>

AbortMissionWriteMission(p) ==
  /\ Writing(p, "abort") /\ procs[p].wm = "pending"
  /\ \E out \in StoreOutcomes :
       MissionUpdate(p, out, [missions[procs[p].m] EXCEPT
                                !.status = "ABORTED", !.completedAt = Date])

\* The same write, with the status mission:failed gives the drone.
AbortMissionFaultsDrone(p) ==
  /\ Writing(p, "abort") /\ procs[p].wd = "pending"
  /\ \E out \in StoreOutcomes : DroneUpdate(p, out, "ERROR")

AbortMissionWriteDrone(p) ==
  /\ Writing(p, "abort") /\ procs[p].wd = "pending"
  /\ \E out \in StoreOutcomes : DroneUpdate(p, out, "AVAILABLE")

\* ------------------------------------------------------------- socket reports
\* mission.findUnique({select: {droneId}}).then(...) of a report: the drone to
\* update is the one the mission references when the lookup runs.
DroneLookup(p) ==
  LET r == procs[p]
      mission == missions[r.m]
      found == mission.exists /\ mission.droneId # NoId
      r0 == [r EXCEPT !.d = IF found THEN mission.droneId ELSE NoId,
                      !.wd = IF found THEN "pending" ELSE "none"]
  IN \E pub \in EmitOutcomes :
       LET r1 == Settle(r0, pub)
       IN /\ procs' = [procs EXCEPT ![p] = r1]
          /\ faults' = Spent("ok", r1)
          /\ history' = Journal(<<>>, r1)
          /\ UNCHANGED <<flightLogs, missions, drones, clock, created>>

\* socket.on('mission:complete')
MissionComplete(p, id, metrics) ==
  /\ Accepts(p)
  /\ procs' = [procs EXCEPT ![p] =
                 [Suspend("complete", id, NoId, "lookup") EXCEPT !.metrics = metrics]]
  /\ clock' = clock + 1
  /\ UNCHANGED <<flightLogs, missions, drones, faults, created, history>>

MissionCompleteWriteMission(p) ==
  /\ Writing(p, "complete") /\ procs[p].wm = "pending"
  /\ \E out \in StoreOutcomes :
       MissionUpdate(p, out, [missions[procs[p].m] EXCEPT
                                !.status = "COMPLETED", !.completedAt = Date,
                                !.metrics = procs[p].metrics])

MissionCompleteLookup(p) ==
  /\ Writing(p, "complete") /\ procs[p].wd = "lookup"
  /\ DroneLookup(p)

MissionCompleteWriteDrone(p) ==
  /\ Writing(p, "complete") /\ procs[p].wd = "pending"
  /\ \E out \in StoreOutcomes : DroneUpdate(p, out, "AVAILABLE")

\* socket.on('mission:failed')
MissionFailed(p, id, reason) ==
  /\ Accepts(p)
  /\ procs' = [procs EXCEPT ![p] =
                 [Suspend("fail", id, NoId, "lookup") EXCEPT !.reason = reason]]
  /\ clock' = clock + 1
  /\ UNCHANGED <<flightLogs, missions, drones, faults, created, history>>

MissionFailedWriteMission(p) ==
  /\ Writing(p, "fail") /\ procs[p].wm = "pending"
  /\ \E out \in StoreOutcomes :
       MissionUpdate(p, out, [missions[procs[p].m] EXCEPT
                                !.status = "FAILED", !.completedAt = Date])

MissionFailedLookup(p) ==
  /\ Writing(p, "fail") /\ procs[p].wd = "lookup"
  /\ DroneLookup(p)

\* The same write, with the status mission:complete gives the drone.
MissionFailedFreesDrone(p) ==
  /\ Writing(p, "fail") /\ procs[p].wd = "pending"
  /\ \E out \in StoreOutcomes : DroneUpdate(p, out, "AVAILABLE")

MissionFailedWriteDrone(p) ==
  /\ Writing(p, "fail") /\ procs[p].wd = "pending"
  /\ \E out \in StoreOutcomes : DroneUpdate(p, out, "ERROR")

\* socket.on('drone:status_update'): one store call, then the emit.
DroneStatusUpdate(p, droneId, status) ==
  /\ Accepts(p)
  /\ \E call \in StoreOutcomes :
       LET out == IF drones[droneId].exists THEN call ELSE "fail"
           r1 == [Idle EXCEPT !.op = "droneStatus", !.pc = "done", !.d = droneId,
                              !.wd = out,
                              !.res = IF out = "ok" THEN "Success"
                                      ELSE "PersistenceError",
                              !.emits = IF out = "ok" THEN <<DroneEvent(droneId)>>
                                        ELSE <<>>]
       IN /\ drones' = IF out = "ok" THEN [drones EXCEPT ![droneId].status = status]
                       ELSE drones
          /\ procs' = [procs EXCEPT ![p] = r1]
          /\ faults' = Failed(call)
          /\ history' = Journal(<<>>, r1)
  /\ clock' = clock + 1
  /\ UNCHANGED <<flightLogs, missions, created>>

\* socket.on('flight:log'): flightLog.create and the emit to the mission room,
\* then the lookup of the mission's drone, then the update of its batteryLevel
\* and the emit to the fleet room; three awaits, one after the other.
FlightLogEvent(id) == [name |-> "flight:log:update", id |-> id, reason |-> ""]
BatteryEvent(id) == [name |-> "drone:battery_update", id |-> id, reason |-> ""]

Publish(events) ==
  IF history.on THEN [history EXCEPT !.events = @ \o events] ELSE history

\* A telemetry handler that has finished.
Logged(r, res, events) ==
  [Idle EXCEPT !.op = r.op, !.pc = "done", !.m = r.m, !.d = r.d,
               !.wm = r.wm, !.wd = r.wd, !.res = res, !.emits = r.emits \o events]

FlightLog(p, id, level) ==
  /\ Accepts(p)
  /\ procs' = [procs EXCEPT ![p] =
                 [Suspend("flightLog", id, NoId, "lookup") EXCEPT !.battery = level]]
  /\ clock' = clock + 1
  /\ UNCHANGED <<flightLogs, missions, drones, faults, created, history>>

FlightLogCreate(p) ==
  /\ Writing(p, "flightLog") /\ procs[p].wm = "pending"
  /\ \E out \in StoreOutcomes :
       LET r == procs[p]
           events == IF out = "ok" THEN <<FlightLogEvent(r.m)>> ELSE <<>>
       IN /\ flightLogs' = IF out = "ok" THEN [flightLogs EXCEPT ![r.m] = @ + 1]
                           ELSE flightLogs
          /\ procs' = [procs EXCEPT ![p] =
                         IF out = "ok" THEN [r EXCEPT !.wm = "ok", !.emits = events]
                         ELSE Logged([r EXCEPT !.wm = "fail", !.wd = "none"],
                                     "PersistenceError", <<>>)]
          /\ faults' = Failed(out)
          /\ history' = Publish(events)
  /\ UNCHANGED <<missions, drones, clock, created>>

FlightLogLookup(p) ==
  /\ Writing(p, "flightLog") /\ procs[p].wm = "ok" /\ procs[p].wd = "lookup"
  /\ LET r == procs[p]
         mission == missions[r.m]
         found == mission.exists /\ mission.droneId # NoId
     IN procs' = [procs EXCEPT ![p] =
                    IF found THEN [r EXCEPT !.d = mission.droneId, !.wd = "pending"]
                    ELSE Logged([r EXCEPT !.wd = "none"], "Success", <<>>)]
  /\ UNCHANGED <<flightLogs, missions, drones, clock, faults, created, history>>

\* The same write, replacing the whole drone record.
FlightLogReplacesDrone(p) ==
  /\ Writing(p, "flightLog") /\ procs[p].wd = "pending"
  /\ \E out \in StoreOutcomes :
       LET r == procs[p]
           applied == out = "ok" /\ drones[r.d].exists
           events == IF applied THEN <<BatteryEvent(r.d)>> ELSE <<>>
       IN /\ drones' = IF applied
                       THEN [drones EXCEPT ![r.d] =
                               [NewDrone EXCEPT !.batteryLevel = r.battery]]
                       ELSE drones
          /\ procs' = [procs EXCEPT ![p] =
                         Logged([r EXCEPT !.wd = IF applied THEN "ok" ELSE "fail"],
                                IF applied THEN "Success" ELSE "PersistenceError",
                                events)]
          /\ faults' = Failed(out)
          /\ history' = Publish(events)
  /\ UNCHANGED <<flightLogs, missions, clock, created>>

FlightLogWriteDrone(p) ==
  /\ Writing(p, "flightLog") /\ procs[p].wd = "pending"
  /\ \E out \in StoreOutcomes :
       LET r == procs[p]
           applied == out = "ok" /\ drones[r.d].exists
           events == IF applied THEN <<BatteryEvent(r.d)>> ELSE <<>>
       IN /\ drones' = IF applied THEN [drones EXCEPT ![r.d].batteryLevel = r.battery]
                       ELSE drones
          /\ procs' = [procs EXCEPT ![p] =
                         Logged([r EXCEPT !.wd = IF applied THEN "ok" ELSE "fail"],
                                IF applied THEN "Success" ELSE "PersistenceError",
                                events)]
          /\ faults' = Failed(out)
          /\ history' = Publish(events)
  /\ UNCHANGED <<flightLogs, missions, clock, created>>

\* ------------------------------------------------------------- deleteDrone
\* include: {missions: {where: {status: {in: ['IN_PROGRESS', 'PAUSED']}}}}
ActiveMissionsOf(id) ==
  {m \in MissionIds : /\ missions[m].exists /\ missions[m].droneId = id
                      /\ missions[m].status \in {"IN_PROGRESS", "PAUSED"}}

NoDrone == [NewDrone EXCEPT !.exists = FALSE]

DeleteDroneRead(p, id) ==
  /\ Accepts(p)
  /\ LET existingDrone == drones[id]
         res == IF ~existingDrone.exists THEN "NotFound"
                ELSE IF ActiveMissionsOf(id) # {} THEN "DroneInMission"
                ELSE "none"
     IN procs' = [procs EXCEPT ![p] =
                    IF res = "none"
                    THEN [Suspend("deleteDrone", NoId, id, "pending") EXCEPT
                            !.wm = "none"]
                    ELSE [Answer("deleteDrone", NoId, res) EXCEPT !.d = id]]
  /\ clock' = clock + 1
  /\ UNCHANGED <<flightLogs, missions, drones, faults, created, history>>

\* prisma.drone.delete({where: {id}}): Mission.drone is an optional relation with
\* no onDelete, so the delete sets the droneId of the missions that reference
\* the drone to null; it rejects when the record is gone.
DeleteDroneWrite(p) ==
  /\ Writing(p, "deleteDrone")
  /\ \E out \in StoreOutcomes :
       LET r == procs[p]
           applied == out = "ok" /\ drones[r.d].exists
       IN /\ drones' = IF applied THEN [drones EXCEPT ![r.d] = NoDrone] ELSE drones
          /\ missions' = IF applied
                         THEN [m \in MissionIds |->
                                 IF missions[m].exists /\ missions[m].droneId = r.d
                                 THEN [missions[m] EXCEPT !.droneId = NoId]
                                 ELSE missions[m]]
                         ELSE missions
          /\ procs' = [procs EXCEPT ![p] =
                         Logged([r EXCEPT !.wd = IF applied THEN "ok" ELSE "fail"],
                                IF applied THEN "Success" ELSE "PersistenceError",
                                <<>>)]
          /\ faults' = Failed(out)
  /\ UNCHANGED <<flightLogs, clock, created, history>>

\* ------------------------------------------------------------- specification
Next ==
  \/ \E p \in Procs, d \in DroneIds \cup {NoId} : CreateMissionRead(p, d)
  \/ \E p \in Procs : CreateMissionWrite(p)
  \/ \E p \in Procs, id \in MissionIds, patch \in Patches : UpdateMissionRead(p, id, patch)
  \/ \E p \in Procs : UpdateMissionWrite(p)
  \/ \E p \in Procs, id \in MissionIds : DeleteMissionRead(p, id)
  \/ \E p \in Procs : DeleteMissionWrite(p)
  \/ \E p \in Procs, id \in MissionIds : StartMissionRead(p, id)
  \/ \E p \in Procs : StartMissionWriteMission(p)
  \/ \E p \in Procs : StartMissionWriteDrone(p)
  \/ \E p \in Procs, id \in MissionIds : PauseMissionRead(p, id)
  \/ \E p \in Procs : PauseMissionWrite(p)
  \/ \E p \in Procs, id \in MissionIds : ResumeMissionRead(p, id)
  \/ \E p \in Procs : ResumeMissionWrite(p)
  \/ \E p \in Procs, id \in MissionIds : AbortMissionRead(p, id)
  \/ \E p \in Procs : AbortMissionWriteMission(p)
  \/ \E p \in Procs : AbortMissionWriteDrone(p)
  \/ \E p \in Procs, id \in MissionIds, x \in MetricValues : MissionComplete(p, id, x)
  \/ \E p \in Procs : MissionCompleteWriteMission(p)
  \/ \E p \in Procs : MissionCompleteLookup(p)
  \/ \E p \in Procs : MissionCompleteWriteDrone(p)
  \/ \E p \in Procs, id \in MissionIds, why \in Reasons : MissionFailed(p, id, why)
  \/ \E p \in Procs : MissionFailedWriteMission(p)
  \/ \E p \in Procs : MissionFailedLookup(p)
  \/ \E p \in Procs : MissionFailedWriteDrone(p)
  \/ \E p \in Procs, d \in DroneIds, st \in DroneStatus : DroneStatusUpdate(p, d, st)

Spec == Init /\ [][Next]_vars

\* The commands with a paired mission and drone write (and createMission, which
\* makes their missions).
NextJoint ==
  \/ \E p \in Procs, d \in DroneIds \cup {NoId} : CreateMissionRead(p, d)
  \/ \E p \in Procs : CreateMissionWrite(p)
  \/ \E p \in Procs, id \in MissionIds : StartMissionRead(p, id)
  \/ \E p \in Procs : StartMissionWriteMission(p)
  \/ \E p \in Procs : StartMissionWriteDrone(p)
  \/ \E p \in Procs, id \in MissionIds : AbortMissionRead(p, id)
  \/ \E p \in Procs : AbortMissionWriteMission(p)
  \/ \E p \in Procs : AbortMissionWriteDrone(p)
  \/ \E p \in Procs, id \in MissionIds, x \in MetricValues : MissionComplete(p, id, x)
  \/ \E p \in Procs : MissionCompleteWriteMission(p)
  \/ \E p \in Procs : MissionCompleteLookup(p)
  \/ \E p \in Procs : MissionCompleteWriteDrone(p)
  \/ \E p \in Procs, id \in MissionIds, why \in Reasons : MissionFailed(p, id, why)
  \/ \E p \in Procs : MissionFailedWriteMission(p)
  \/ \E p \in Procs : MissionFailedLookup(p)
  \/ \E p \in Procs : MissionFailedWriteDrone(p)

SpecJoint == Init /\ [][NextJoint]_vars

SpecFaulty == InitFaulty /\ [][NextJoint]_vars

\* A mission in flight: mission 1 was created on drone 1 and started.  The
\* commands and reports that apply to a running mission arrive, and the
\* history of mission writes and of published events is kept.
InitRunning ==
  /\ missions = [id \in MissionIds |->
                   IF id = 1
                   THEN [NoMission EXCEPT !.exists = TRUE, !.status = "IN_PROGRESS",
                                          !.droneId = 1, !.startedAt = Date]
                   ELSE NoMission]
  /\ drones = [id \in DroneIds |->
                 IF id = 1 THEN [NewDrone EXCEPT !.status = "IN_MISSION"]
                 ELSE NewDrone]
  /\ procs = [p \in Procs |-> Idle]
  /\ clock = 0
  /\ faults = 0
  /\ created = 1
  /\ history = [NoHistory EXCEPT !.on = TRUE]
  /\ flightLogs = [id \in MissionIds |-> 0]

NextRunning ==
  \/ \E p \in Procs, id \in MissionIds : PauseMissionRead(p, id)
  \/ \E p \in Procs : PauseMissionWrite(p)
  \/ \E p \in Procs, id \in MissionIds : ResumeMissionRead(p, id)
  \/ \E p \in Procs : ResumeMissionWrite(p)
  \/ \E p \in Procs, id \in MissionIds : AbortMissionRead(p, id)
  \/ \E p \in Procs : AbortMissionWriteMission(p)
  \/ \E p \in Procs : AbortMissionWriteDrone(p)
  \/ \E p \in Procs, id \in MissionIds, x \in MetricValues : MissionComplete(p, id, x)
  \/ \E p \in Procs : MissionCompleteWriteMission(p)
  \/ \E p \in Procs : MissionCompleteLookup(p)
  \/ \E p \in Procs : MissionCompleteWriteDrone(p)
  \/ \E p \in Procs, id \in MissionIds, why \in ReportReasons : MissionFailed(p, id, why)
  \/ \E p \in Procs : MissionFailedWriteMission(p)
  \/ \E p \in Procs : MissionFailedLookup(p)
  \/ \E p \in Procs : MissionFailedWriteDrone(p)

SpecRunning == InitRunning /\ [][NextRunning]_vars

\* The same mission in flight, reporting telemetry while it is paused, resumed
\* and aborted.
InitTelemetry ==
  /\ missions = [id \in MissionIds |->
                   IF id = 1
                   THEN [NoMission EXCEPT !.exists = TRUE, !.status = "IN_PROGRESS",
                                          !.droneId = 1, !.startedAt = Date]
                   ELSE NoMission]
  /\ drones = [id \in DroneIds |->
                 IF id = 1 THEN [NewDrone EXCEPT !.status = "IN_MISSION"]
                 ELSE NewDrone]
  /\ procs = [p \in Procs |-> Idle]
  /\ clock = 0
  /\ faults = 0
  /\ created = 1
  /\ history = NoHistory
  /\ flightLogs = [id \in MissionIds |-> 0]

NextTelemetry ==
  \/ \E p \in Procs, id \in MissionIds, level \in BatteryLevels : FlightLog(p, id, level)
  \/ \E p \in Procs : FlightLogCreate(p)
  \/ \E p \in Procs : FlightLogLookup(p)
  \/ \E p \in Procs : FlightLogWriteDrone(p)
  \/ \E p \in Procs, id \in MissionIds : PauseMissionRead(p, id)
  \/ \E p \in Procs : PauseMissionWrite(p)
  \/ \E p \in Procs, id \in MissionIds : ResumeMissionRead(p, id)
  \/ \E p \in Procs : ResumeMissionWrite(p)
  \/ \E p \in Procs, id \in MissionIds : AbortMissionRead(p, id)
  \/ \E p \in Procs : AbortMissionWriteMission(p)
  \/ \E p \in Procs : AbortMissionWriteDrone(p)

SpecTelemetry == InitTelemetry /\ [][NextTelemetry]_vars

\* The store after one createMission with drone 1, which may reject calls and
\* which answers every call it was sent: a suspended handler's next step is
\* taken at some time.
InitLive ==
  /\ missions = [id \in MissionIds |->
                   IF id = 1 THEN [NoMission EXCEPT !.exists = TRUE, !.droneId = 1]
                   ELSE NoMission]
  /\ drones = [id \in DroneIds |-> NewDrone]
  /\ procs = [p \in Procs |-> Idle]
  /\ clock = 1
  /\ faults = MaxFailures
  /\ created = 1
  /\ history = NoHistory
  /\ flightLogs = [id \in MissionIds |-> 0]

\* The steps of the handler suspended in slot p.
Resume(p) ==
  \/ StartMissionWriteMission(p)
  \/ StartMissionWriteDrone(p)
  \/ PauseMissionWrite(p)
  \/ ResumeMissionWrite(p)
  \/ AbortMissionWriteMission(p)
  \/ AbortMissionWriteDrone(p)
  \/ MissionCompleteWriteMission(p)
  \/ MissionCompleteLookup(p)
  \/ MissionCompleteWriteDrone(p)
  \/ MissionFailedWriteMission(p)
  \/ MissionFailedLookup(p)
  \/ MissionFailedWriteDrone(p)

NextLive ==
  \/ \E p \in Procs, id \in MissionIds : StartMissionRead(p, id)
  \/ \E p \in Procs, id \in MissionIds : PauseMissionRead(p, id)
  \/ \E p \in Procs, id \in MissionIds : ResumeMissionRead(p, id)
  \/ \E p \in Procs, id \in MissionIds : AbortMissionRead(p, id)
  \/ \E p \in Procs, id \in MissionIds, x \in MetricValues : MissionComplete(p, id, x)
  \/ \E p \in Procs, id \in MissionIds, why \in Reasons : MissionFailed(p, id, why)
  \/ \E p \in Procs : StartMissionWriteMission(p)
  \/ \E p \in Procs : StartMissionWriteDrone(p)
  \/ \E p \in Procs : PauseMissionWrite(p)
  \/ \E p \in Procs : ResumeMissionWrite(p)
  \/ \E p \in Procs : AbortMissionWriteMission(p)
  \/ \E p \in Procs : AbortMissionWriteDrone(p)
  \/ \E p \in Procs : MissionCompleteWriteMission(p)
  \/ \E p \in Procs : MissionCompleteLookup(p)
  \/ \E p \in Procs : MissionCompleteWriteDrone(p)
  \/ \E p \in Procs : MissionFailedWriteMission(p)
  \/ \E p \in Procs : MissionFailedLookup(p)
  \/ \E p \in Procs : MissionFailedWriteDrone(p)

SpecLive ==
  InitLive /\ [][NextLive]_vars /\ \A p \in Procs : WF_vars(Resume(p))

\* The same mission in flight, deleted while it is paused, resumed, aborted or
\* reported complete.
NextRetire ==
  \/ \E p \in Procs, id \in MissionIds : DeleteMissionRead(p, id)
  \/ \E p \in Procs : DeleteMissionWrite(p)
  \/ \E p \in Procs, id \in MissionIds : PauseMissionRead(p, id)
  \/ \E p \in Procs : PauseMissionWrite(p)
  \/ \E p \in Procs, id \in MissionIds : ResumeMissionRead(p, id)
  \/ \E p \in Procs : ResumeMissionWrite(p)
  \/ \E p \in Procs, id \in MissionIds : AbortMissionRead(p, id)
  \/ \E p \in Procs : AbortMissionWriteMission(p)
  \/ \E p \in Procs : AbortMissionWriteDrone(p)
  \/ \E p \in Procs, id \in MissionIds, x \in MetricValues : MissionComplete(p, id, x)
  \/ \E p \in Procs : MissionCompleteWriteMission(p)
  \/ \E p \in Procs : MissionCompleteLookup(p)
  \/ \E p \in Procs : MissionCompleteWriteDrone(p)

SpecRetire == InitTelemetry /\ [][NextRetire]_vars

\* The fleet: missions are created and started while drones are deleted.
NextFleet ==
  \/ \E p \in Procs, d \in DroneIds \cup {NoId} : CreateMissionRead(p, d)
  \/ \E p \in Procs : CreateMissionWrite(p)
  \/ \E p \in Procs, id \in MissionIds : StartMissionRead(p, id)
  \/ \E p \in Procs : StartMissionWriteMission(p)
  \/ \E p \in Procs : StartMissionWriteDrone(p)
  \/ \E p \in Procs, d \in DroneIds : DeleteDroneRead(p, d)
  \/ \E p \in Procs : DeleteDroneWrite(p)

SpecFleet == Init /\ [][NextFleet]_vars

\* ------------------------------------------------------------- properties
ActiveRefs(d) ==
  {m \in MissionIds : /\ missions[m].exists
                      /\ missions[m].droneId = d
                      /\ missions[m].status \in ActiveStatus}

Finished(p, op) == procs[p].pc = "done" /\ procs[p].op = op

JointOps     == {"start", "abort", "complete", "fail"}
LifecycleOps == {"start", "pause", "resume", "abort", "complete", "fail"}

\* The valid source states of the lifecycle operations.
Sources(op) ==
  CASE op = "start"    -> {"PLANNED", "SCHEDULED"}
    [] op = "pause"    -> {"IN_PROGRESS"}
    [] op = "resume"   -> {"PAUSED"}
    [] op = "abort"    -> {"IN_PROGRESS", "PAUSED"}
    [] op = "complete" -> {"IN_PROGRESS"}
    [] op = "fail"     -> {"IN_PROGRESS", "PAUSED"}
    [] OTHER           -> {}

Target(op) ==
  CASE op = "start"    -> "IN_PROGRESS"
    [] op = "pause"    -> "PAUSED"
    [] op = "resume"   -> "IN_PROGRESS"
    [] op = "abort"    -> "ABORTED"
    [] op = "complete" -> "COMPLETED"
    [] op = "fail"     -> "FAILED"
    [] OTHER           -> "none"

Edges == UNION {Sources(op) \X {Target(op)} : op \in LifecycleOps}

\* C1: a drone is IN_MISSION if and only if exactly one mission that is
\* IN_PROGRESS or PAUSED references it.
C1_DroneInMissionIffOneActiveMission ==
  \A d \in DroneIds :
    (drones[d].status = "IN_MISSION") <=> (Cardinality(ActiveRefs(d)) = 1)

\* C2: of two startMission calls that race on the same AVAILABLE drone for two
\* different PLANNED/SCHEDULED missions (store calls all applied), exactly one
\* answers success and the other ResourceConflict.
C2_RacingStartsOneWinner ==
  \A p, q \in Procs :
    ( /\ p # q
      /\ Finished(p, "start") /\ Finished(q, "start")
      /\ procs[p].rival = q /\ procs[q].rival = p
      /\ procs[p].res # "PersistenceError" /\ procs[q].res # "PersistenceError" )
    => {procs[p].res, procs[q].res} = {"Success", "ResourceConflict"}

\* C3: at most one mission that is IN_PROGRESS or PAUSED references a drone.
C3_AtMostOneActiveMissionPerDrone ==
  \A d \in DroneIds : Cardinality(ActiveRefs(d)) <= 1

\* C4: every change of a mission's status is one of the edges of the
\* lifecycle (start, pause, resume, abort, complete, fail from their valid
\* source states).
C4_StatusChangesAlongEdges ==
  [][\A m \in MissionIds :
       (missions[m].exists /\ missions'[m].exists
          /\ missions'[m].status # missions[m].status)
       => <<missions[m].status, missions'[m].status>> \in Edges]_vars

\* C5: once a mission is COMPLETED, ABORTED or FAILED, no step changes its
\* status, its completedAt or its metrics.
C5_TerminalIsWriteOnce ==
  [][\A m \in MissionIds :
       (missions[m].exists /\ missions[m].status \in TerminalStatus
          /\ missions'[m].exists)
       => /\ missions'[m].status = missions[m].status
          /\ missions'[m].completedAt = missions[m].completedAt
          /\ missions'[m].metrics = missions[m].metrics]_vars

\* C6: startMission answers success if and only if, when its writes are
\* applied, the mission is PLANNED or SCHEDULED and its drone is AVAILABLE.
C6_StartSucceedsIffEligibleAtCommit ==
  \A p \in Procs :
    (Finished(p, "start") /\ procs[p].wm = "ok" /\ procs[p].wd = "ok")
    => ( (procs[p].res = "Success")
         <=> ( /\ procs[p].preM \in {"PLANNED", "SCHEDULED"}
               /\ procs[p].preD = "AVAILABLE" ) )

\* C7: when abortMission or a mission:complete report that took its mission
\* from a valid source state to ABORTED or COMPLETED finishes, the mission's
\* drone is AVAILABLE; when a mission:failed report does, it is ERROR; the drone
\* is never left IN_MISSION.
C7_TerminalTransitionFreesDrone ==
  [][\A p \in Procs :
       ( /\ procs[p].pc = "write" /\ procs'[p].pc = "done"
         /\ procs'[p].op \in {"abort", "complete", "fail"}
         /\ procs'[p].wm = "ok" /\ procs'[p].d # NoId
         /\ procs'[p].preM \in Sources(procs'[p].op) )
       => drones'[procs'[p].d].status =
            (IF procs'[p].op = "fail" THEN "ERROR" ELSE "AVAILABLE")]_vars

\* C8: the mission write and the drone write of start, abort, complete and fail
\* (on a mission in a valid source state, with a drone) are one step: no state
\* shows one of them applied and the other not yet.
C8_JointWriteIsAtomic ==
  \A p \in Procs :
    (procs[p].pc = "write" /\ procs[p].op \in JointOps)
    => /\ ~( /\ procs[p].wm = "ok" /\ procs[p].wd \in {"pending", "lookup"}
             /\ procs[p].preM \in Sources(procs[p].op)
             /\ missions[procs[p].m].droneId # NoId )
       /\ ~( /\ procs[p].wd = "ok" /\ procs[p].wm = "pending"
             /\ missions[procs[p].m].status \in Sources(procs[p].op) )

\* C9: a command one of whose store writes failed has changed neither the
\* mission nor the drone.
C9_FailedCommandChangesNothing ==
  \A p \in Procs :
    (procs[p].pc = "done" /\ procs[p].res = "PersistenceError")
    => (procs[p].wm # "ok" /\ procs[p].wd # "ok")

\* C10: a lifecycle operation on a mission whose status is not one of its
\* valid source states writes nothing: the mission write of a lifecycle
\* operation is applied only to a mission in one of its valid source states.
C10_InvalidSourceWritesNothing ==
  [][\A p \in Procs :
       ( /\ procs[p].pc = "write" /\ procs[p].op \in LifecycleOps
         /\ procs[p].wm = "pending" /\ procs'[p].wm = "ok" )
       => missions[procs[p].m].status \in Sources(procs[p].op)]_vars

\* C11: the write of updateMission or deleteMission is never applied to a
\* mission that is IN_PROGRESS when the write is applied, also when a
\* startMission or resumeMission committed between their read and their write.
C11_NoUpdateOrDeleteWhileInProgress ==
  [][\A p \in Procs :
       ( /\ procs[p].pc = "write" /\ procs[p].op \in {"update", "delete"}
         /\ procs[p].wm = "pending" /\ procs'[p].wm = "ok" )
       => missions[procs[p].m].status # "IN_PROGRESS"]_vars

\* C12: updateMission on a mission whose status is not PLANNED or SCHEDULED
\* answers MissionLocked right after its read and writes nothing.
C12_UpdateLockedUnlessPlannedOrScheduled ==
  [][\A p \in Procs, m \in MissionIds :
       ( /\ SlotFree(p) /\ clock' = clock + 1 /\ procs'[p] # procs[p]
         /\ procs'[p].op = "update" /\ procs'[p].m = m
         /\ missions[m].exists
         /\ missions[m].status \notin {"PLANNED", "SCHEDULED"} )
       => ( /\ procs'[p].pc = "done" /\ procs'[p].res = "MissionLocked"
            /\ missions' = missions )]_vars

\* The event that announces each transition.
EventName(op) ==
  CASE op = "start"    -> "mission:started"
    [] op = "pause"    -> "mission:paused"
    [] op = "resume"   -> "mission:resumed"
    [] op = "abort"    -> "mission:aborted"
    [] op = "complete" -> "mission:completed"
    [] op = "fail"     -> "mission:failed"
    [] OTHER           -> "none"

\* C13: a lifecycle command that has committed (its writes were all applied)
\* has emitted exactly one mission event, the one of its transition and for its
\* mission, followed by exactly one drone:status_updated for its drone when it
\* wrote a drone and by nothing otherwise; a command that did not commit has
\* emitted nothing.
C13_OneMissionEventThenDroneEvent ==
  \A p \in Procs :
    (procs[p].pc = "done" /\ procs[p].op \in LifecycleOps)
    => LET r == procs[p]
       IN IF r.wm = "ok" /\ r.wd \in {"ok", "none"}
          THEN /\ Len(r.emits) = (IF r.wd = "ok" THEN 2 ELSE 1)
               /\ r.emits[1].name = EventName(r.op) /\ r.emits[1].id = r.m
               /\ r.wd = "ok" => r.emits[2] = DroneEvent(r.d)
          ELSE r.emits = <<>>

C13_StartEmittedBoth ==
  \E p \in Procs :
    /\ Finished(p, "start") /\ procs[p].res = "Success"
    /\ procs[p].preM = "PLANNED" /\ procs[p].preD = "AVAILABLE"
    /\ procs[p].emits = <<MissionEvent("mission:started", procs[p].m, ""),
                          DroneEvent(procs[p].d)>>

\* The mission events of mission m in a sequence of events, in order.
MissionEventsOf(seq, m) ==
  SelectSeq(seq, LAMBDA e : e.name # "drone:status_updated" /\ e.id = m)

IsPrefix(s, t) == Len(s) <= Len(t) /\ SubSeq(t, 1, Len(s)) = s

\* C14: for every mission, the mission events published so far are, in order,
\* the events of the first status writes applied to that mission: events are
\* published in the order in which the writes were committed.
C14_EventsInCommitOrder ==
  \A m \in MissionIds :
    IsPrefix(MissionEventsOf(history.events, m), MissionEventsOf(history.commits, m))

\* The outcome <<mission status, drone status>> of running the commands named
\* by events one after the other from st, each from a valid source state.
RECURSIVE SeqRun(_, _)
SeqRun(st, events) ==
  IF events = <<>> THEN st
  ELSE LET op == CHOOSE o \in LifecycleOps : EventName(o) = Head(events)
           droneStatus == CASE op \in {"abort", "complete"} -> "AVAILABLE"
                            [] op = "fail"  -> "ERROR"
                            [] op = "start" -> "IN_MISSION"
                            [] OTHER        -> st[2]
       IN IF st[1] \in Sources(op)
          THEN SeqRun(<<Target(op), droneStatus>>, Tail(events))
          ELSE <<"invalid", "invalid">>

Perms(n) == {f \in [1..n -> 1..n] : \A i, j \in 1..n : f[i] = f[j] => i = j}

Quiet == \A p \in Procs : SlotFree(p)

\* C16: when no handler is in flight, the status of mission 1 (which started
\* IN_PROGRESS on drone 1 IN_MISSION) and of its drone are the outcome of
\* running the commands that succeeded on it one after the other in some order.
C16_SerializedAtCommit ==
  Quiet =>
    LET ev == MissionEventsOf(history.events, 1)
        n == Len(ev)
    IN \E f \in Perms(n) :
         SeqRun(<<"IN_PROGRESS", "IN_MISSION">>, [i \in 1..n |-> ev[f[i]].name])
           = <<missions[1].status, drones[1].status>>

\* The lifecycle commands that answer a caller (the REST ones).
RestTransitions == {"start", "pause", "resume", "abort"}

\* C15: a lifecycle command all of whose writes were applied answers success,
\* whether or not the emit of its events threw.
C15_PublishFailureStillSuccess ==
  \A p \in Procs :
    ( /\ procs[p].pc = "done" /\ procs[p].op \in RestTransitions
      /\ procs[p].wm = "ok" /\ procs[p].wd \in {"ok", "none"} )
    => procs[p].res = "Success"

\* C17: while a mission that is IN_PROGRESS or PAUSED references a drone, a
\* step changes the drone's status only if it is the drone write of the
\* abort, complete or fail of such a mission (or still of its start).
C17_BusyDroneWrittenOnlyByItsMission ==
  [][\A d \in DroneIds :
       (ActiveRefs(d) # {} /\ drones'[d].status # drones[d].status)
       => \E p \in Procs :
            /\ procs[p].pc = "write"
            /\ procs[p].op \in {"start", "abort", "complete", "fail"}
            /\ procs[p].wd = "pending" /\ procs'[p].wd = "ok"
            /\ procs[p].d = d /\ procs[p].m \in ActiveRefs(d)]_vars

\* C18: a mission:failed report with a reason, on a mission that is IN_PROGRESS
\* or PAUSED and references a drone: its mission write sets the mission FAILED
\* with completedAt set, the drone it updates is the one the mission references
\* and its drone write sets it to ERROR, and the mission:failed event it emits
\* carries exactly the reason of the report.
C18_FailedReportEffects ==
  [][\A p \in Procs :
       Writing(p, "fail") =>
         LET r == procs[p]
             m == r.m
         IN /\ ( /\ r.wm = "pending" /\ procs'[p].wm = "ok"
                 /\ missions[m].status \in ActiveStatus )
               => ( /\ missions'[m].status = "FAILED"
                    /\ missions'[m].completedAt = Date )
            /\ ( /\ r.wd = "lookup" /\ procs'[p].wd # "lookup"
                 /\ missions[m].exists /\ missions[m].droneId # NoId )
               => ( procs'[p].wd = "pending" /\ procs'[p].d = missions[m].droneId )
            /\ (r.wd = "pending" /\ procs'[p].wd = "ok")
               => drones'[r.d].status = "ERROR"
            /\ (procs'[p].pc = "done" /\ procs'[p].wm = "ok" /\ procs'[p].wd = "ok")
               => ( /\ procs'[p].emits # <<>>
                    /\ procs'[p].emits[1] = MissionEvent("mission:failed", m, r.reason) )
    ]_vars

C18_PausedMissionFailed ==
  \E p \in Procs :
    /\ Finished(p, "fail") /\ procs[p].res = "Success"
    /\ procs[p].preM = "PAUSED" /\ procs[p].preD = "IN_MISSION"
    /\ missions[procs[p].m].status = "FAILED"
    /\ missions[procs[p].m].completedAt = Date
    /\ drones[procs[p].d].status = "ERROR"
    /\ procs[p].emits = <<MissionEvent("mission:failed", procs[p].m, "battery low"),
                          DroneEvent(procs[p].d)>>

\* C19: from a mission IN_PROGRESS on a drone IN_MISSION, pauseMission and then
\* abortMission: pauseMission is accepted on the IN_PROGRESS mission and
\* abortMission on the PAUSED one, and when these two are the only commands and
\* their writes were applied in that order, both have succeeded and the mission
\* is ABORTED with completedAt set and the drone AVAILABLE.
C19_PauseThenAbort ==
  /\ [][\A p \in Procs, m \in MissionIds :
          ( /\ SlotFree(p) /\ clock' = clock + 1 /\ procs'[p] # procs[p]
            /\ procs'[p].m = m /\ missions[m].exists
            /\ \/ procs'[p].op = "pause" /\ missions[m].status = "IN_PROGRESS"
               \/ procs'[p].op = "abort" /\ missions[m].status = "PAUSED" )
          => procs'[p].pc = "write"]_vars
  /\ []( ( /\ Quiet /\ clock = 2
           /\ history.commits = <<MissionEvent("mission:paused", 1, ""),
                                   MissionEvent("mission:aborted", 1, "")>> )
         => ( /\ history.events = <<MissionEvent("mission:paused", 1, ""),
                                     MissionEvent("mission:aborted", 1, ""),
                                     DroneEvent(1)>>
              /\ missions[1].status = "ABORTED"
              /\ missions[1].completedAt = Date
              /\ drones[1].status = "AVAILABLE" ) )

C19_PausedThenAborted ==
  \E p \in Procs :
    /\ Quiet /\ clock = 2
    /\ Finished(p, "abort") /\ procs[p].res = "Success"
    /\ procs[p].preM = "PAUSED" /\ procs[p].preD = "IN_MISSION"
    /\ history.commits = <<MissionEvent("mission:paused", 1, ""),
                           MissionEvent("mission:aborted", 1, "")>>
    /\ missions[1].status = "ABORTED" /\ drones[1].status = "AVAILABLE"

\* C20: startMission on a PLANNED or SCHEDULED mission with no drone assigned is
\* answered at once with 'drone required': the step changes no mission (status
\* and startedAt stay) and no drone, and the handler emits nothing.
C20_StartWithoutDroneRejected ==
  [][\A p \in Procs, m \in MissionIds :
       ( /\ SlotFree(p) /\ clock' = clock + 1 /\ procs'[p] # procs[p]
         /\ procs'[p].op = "start" /\ procs'[p].m = m
         /\ missions[m].exists
         /\ missions[m].status \in {"PLANNED", "SCHEDULED"}
         /\ missions[m].droneId = NoId )
       => ( /\ procs'[p].pc = "done" /\ procs'[p].res = "DroneRequired"
            /\ procs'[p].emits = <<>>
            /\ missions' = missions /\ drones' = drones )]_vars

C20_RejectedForNoDrone ==
  \E p \in Procs :
    /\ Finished(p, "start") /\ procs[p].res = "DroneRequired"
    /\ missions[procs[p].m].exists
    /\ missions[procs[p].m].status = "PLANNED"
    /\ missions[procs[p].m].droneId = NoId
    /\ missions[procs[p].m].startedAt = Null
    /\ procs[p].emits = <<>>

\* C21: every step of a flight:log handler leaves all missions and the status
\* of all drones unchanged; its create adds exactly one flight-log record to
\* its mission and emits flight:log:update; the drone it updates is the one the
\* mission references, and its drone write sets that drone's batteryLevel to
\* the reported value and emits drone:battery_update.
C21_TelemetryEffects ==
  [][\A p \in Procs :
       (Writing(p, "flightLog") /\ procs'[p] # procs[p]) =>
         LET r == procs[p]
             r1 == procs'[p]
         IN /\ missions' = missions
            /\ \A d \in DroneIds : /\ drones'[d].status = drones[d].status
                                    /\ drones'[d].exists = drones[d].exists
            /\ IF r.wm = "pending"
               THEN /\ flightLogs' = [flightLogs EXCEPT ![r.m] = @ + 1]
                    /\ r1.emits = <<FlightLogEvent(r.m)>>
               ELSE flightLogs' = flightLogs
            /\ (r.wd = "lookup" /\ r.wm = "ok" /\ missions[r.m].droneId # NoId)
               => (r1.wd = "pending" /\ r1.d = missions[r.m].droneId)
            /\ IF r.wd = "pending"
               THEN /\ drones' = [drones EXCEPT ![r.d].batteryLevel = r.battery]
                    /\ r1.emits = <<FlightLogEvent(r.m), BatteryEvent(r.d)>>
               ELSE drones' = drones]_vars

C21_PausedMissionLogged ==
  \E p \in Procs :
    /\ Finished(p, "flightLog") /\ procs[p].res = "Success"
    /\ procs[p].m = 1 /\ procs[p].d = 1
    /\ procs[p].emits = <<FlightLogEvent(1), BatteryEvent(1)>>
    /\ flightLogs[1] = 2
    /\ drones[1].batteryLevel = 20 /\ drones[1].status = "IN_MISSION"
    /\ missions[1].status = "PAUSED"

\* C22: createMission goes on to its create only with no droneId or with the
\* id of a drone that exists and is AVAILABLE when it is looked up; a rejected
\* createMission creates nothing; the create makes exactly one mission, with
\* status PLANNED and the droneId supplied; no step of createMission changes a
\* drone.
C22_CreatePlannedDroneAvailable ==
  [][\A p \in Procs :
       LET r == procs[p]
           r1 == procs'[p]
           arrives == SlotFree(p) /\ clock' = clock + 1
       IN (r1 # r /\ r1.op = "create" /\ (arrives \/ Writing(p, "create"))) =>
            /\ drones' = drones
            /\ arrives => missions' = missions
            /\ (arrives /\ r1.pc = "write")
               => ( \/ r1.d = NoId
                    \/ drones[r1.d].exists /\ drones[r1.d].status = "AVAILABLE" )
            /\ (arrives /\ r1.pc = "done")
               => r1.res \in {"DroneNotFound", "ResourceConflict"}
            /\ Writing(p, "create")
               => ( /\ r1.res = "Success"
                    /\ ~missions[r1.m].exists
                    /\ missions' = [missions EXCEPT ![r1.m] =
                                      [NoMission EXCEPT !.exists = TRUE,
                                                        !.droneId = r.d]]
                    /\ missions'[r1.m].status = "PLANNED" )]_vars

C22_CreatedAndRejected ==
  \E p, q \in Procs :
    /\ Finished(p, "create") /\ procs[p].res = "DroneNotFound"
    /\ Finished(q, "create") /\ procs[q].res = "Success"
    /\ missions[procs[q].m].exists
    /\ missions[procs[q].m].status = "PLANNED"
    /\ missions[procs[q].m].droneId # NoId
    /\ created = 1

\* C23: a lifecycle command or report that was accepted and is suspended at a
\* store call eventually finishes, with success or with an error reported; and
\* a suspended handler leaves its slot only by finishing.
C23_AcceptedCommandsFinish ==
  /\ \A p \in Procs :
       (procs[p].pc = "write" /\ procs[p].op \in LifecycleOps)
         ~> ( /\ procs[p].pc = "done"
              /\ procs[p].res \in {"Success", "PersistenceError", "EmitError"} )
  /\ [][\A p \in Procs :
          (procs[p].pc = "write" /\ procs'[p].pc # "write")
          => ( /\ procs'[p].pc = "done" /\ procs'[p].op = procs[p].op
               /\ procs'[p].m = procs[p].m )]_vars

C23_AbortFinishedWithError ==
  \E p \in Procs :
    /\ Finished(p, "abort") /\ procs[p].res = "PersistenceError"
    /\ procs[p].wm = "ok" /\ procs[p].wd = "fail"

\* C24: deleteMission arriving for an existing mission whose status is not
\* IN_PROGRESS is accepted, and its delete, applied to a mission that is still
\* there, removes the record and answers success with mission:deleted;
\* deleteMission arriving for an unknown id answers NotFound; the arrival
\* changes no mission.
C24_DeleteUnlessInProgress ==
  [][\A p \in Procs :
       LET r == procs[p]
           r1 == procs'[p]
           arrives == SlotFree(p) /\ clock' = clock + 1
       IN (r1 # r /\ r1.op = "delete" /\ (arrives \/ Writing(p, "delete"))) =>
            /\ arrives => missions' = missions
            /\ (arrives /\ missions[r1.m].exists
                  /\ missions[r1.m].status # "IN_PROGRESS")
               => r1.pc = "write"
            /\ (arrives /\ ~missions[r1.m].exists)
               => (r1.pc = "done" /\ r1.res = "NotFound")
            /\ (Writing(p, "delete") /\ missions[r.m].exists)
               => ( /\ missions' = [missions EXCEPT ![r.m] = NoMission]
                    /\ r1.pc = "done" /\ r1.res = "Success"
                    /\ r1.emits = <<MissionEvent("mission:deleted", r.m, "")>> )]_vars

C24_PausedMissionDeleted ==
  \E p \in Procs :
    /\ Finished(p, "delete") /\ procs[p].res = "Success"
    /\ procs[p].preM = "PAUSED" /\ ~missions[procs[p].m].exists
    /\ procs[p].emits = <<MissionEvent("mission:deleted", procs[p].m, "")>>

\* C26: when the delete of deleteMission removes a mission that had a drone,
\* that drone is not left IN_MISSION with no IN_PROGRESS or PAUSED mission
\* referencing it.
C26_DeleteDoesNotStrandDrone ==
  [][\A p \in Procs :
       ( /\ Writing(p, "delete") /\ procs'[p].wm = "ok"
         /\ missions[procs[p].m].droneId # NoId )
       => LET d == missions[procs[p].m].droneId
          IN ~( /\ drones'[d].status = "IN_MISSION"
                /\ \A m \in MissionIds :
                     ~( /\ missions'[m].exists /\ missions'[m].droneId = d
                        /\ missions'[m].status \in ActiveStatus ) )]_vars

\* C25: no step of pauseMission or resumeMission changes a drone; their arrival
\* changes no mission; their write changes of their mission only the status,
\* to PAUSED and to IN_PROGRESS (droneId, startedAt, completedAt and metrics
\* stay), and leaves every other mission alone; they emit their mission event
\* and no drone event.
C25_PauseResumeChangeOnlyStatus ==
  [][\A p \in Procs :
       LET r == procs[p]
           r1 == procs'[p]
           arrives == SlotFree(p) /\ clock' = clock + 1
           writes == r.pc = "write" /\ r.op = r1.op
       IN (r1 # r /\ r1.op \in {"pause", "resume"} /\ (arrives \/ writes)) =>
            /\ drones' = drones
            /\ arrives => missions' = missions
            /\ (writes /\ r1.wm = "ok")
               => ( /\ missions' = [missions EXCEPT ![r.m].status = Target(r.op)]
                    /\ r1.emits = <<MissionEvent(EventName(r.op), r.m, "")>> )
            /\ (writes /\ r1.wm # "ok") => (missions' = missions /\ r1.emits = <<>>)
    ]_vars

C25_ResumedOnItsDrone ==
  \E p \in Procs :
    /\ Finished(p, "resume") /\ procs[p].res = "Success"
    /\ procs[p].preM = "PAUSED"
    /\ missions[procs[p].m].status = "IN_PROGRESS"
    /\ missions[procs[p].m].startedAt = Date
    /\ missions[procs[p].m].completedAt = Null
    /\ drones[missions[procs[p].m].droneId].status = "IN_MISSION"
    /\ procs[p].emits = <<MissionEvent("mission:resumed", procs[p].m, "")>>

\* C27: the drone write of an abortMission, a mission:complete or a
\* mission:failed for mission M does not change the status of a drone that is
\* IN_MISSION while another mission, IN_PROGRESS or PAUSED, references it.
C27_ReportSparesDroneOfOtherMission ==
  [][\A p \in Procs :
       LET r == procs[p]
       IN ( /\ r.pc = "write" /\ r.op \in {"abort", "complete", "fail"}
            /\ r.wd = "pending" /\ procs'[p].wd = "ok"
            /\ drones[r.d].status = "IN_MISSION"
            /\ ActiveRefs(r.d) \ {r.m} # {} )
          => drones'[r.d].status = drones[r.d].status]_vars

\* C28: the write of updateMission leaves the status, startedAt, completedAt
\* and metrics of its mission as they are, for every body that passed
\* validateMission.
C28_UpdateKeepsStatus ==
  [][\A p \in Procs :
       LET r == procs[p]
           m == r.m
       IN ( /\ r.pc = "write" /\ r.op = "update"
            /\ r.wm = "pending" /\ procs'[p].wm = "ok" )
          => ( /\ missions'[m].status = missions[m].status
               /\ missions'[m].startedAt = missions[m].startedAt
               /\ missions'[m].completedAt = missions[m].completedAt
               /\ missions'[m].metrics = missions[m].metrics )]_vars

\* C29: a mission has completedAt set if and only if it is COMPLETED, ABORTED
\* or FAILED, and a mission that is IN_PROGRESS or PAUSED has startedAt set.
C29_DatesMatchStatus ==
  \A m \in MissionIds :
    missions[m].exists =>
      /\ (missions[m].completedAt # Null) <=> (missions[m].status \in TerminalStatus)
      /\ (missions[m].status \in ActiveStatus) => (missions[m].startedAt # Null)

\* C30: the delete of deleteDrone never removes a drone that a mission which is
\* IN_PROGRESS or PAUSED references.
C30_DeleteDroneSparesBusyDrone ==
  [][\A d \in DroneIds :
       (drones[d].exists /\ ~drones'[d].exists) => ActiveRefs(d) = {}]_vars

====
